---- MODULE Spec2Model ----
(***************************************************************************)
(* Model of the categorical scatter-plot renderer                          *)
(* superset/assets/visualizations/catscat.js (scatCatViz and its helpers). *)
(*                                                                         *)
(* Numbers that the code computes as reals (scale positions, the tick      *)
(* interval) are kept exact as fractions [num, den]; NaN and undefined are *)
(* explicit.  Category values keep their JavaScript type (number, string   *)
(* or null) because the code coerces them: unary plus in the sort          *)
(* comparator, string keys in d3.set.                                      *)
(***************************************************************************)
EXTENDS Integers, Sequences, FiniteSets

VARIABLES
    data,         \* json.data.data: the array of Series (sorted in place by sortData)
    yLines,       \* json.data.yLines: [defined, list]
    width,        \* slice.width()
    height,       \* slice.height()
    container,    \* children of the slice container: the SVGs appended so far
    threw,        \* TRUE when the last scatCatViz call ended in a TypeError
    pc,           \* "loading": the host is assembling json; "rendered": scatCatViz returned or threw
    calls,        \* number of scatCatViz calls so far
    cleared,      \* number of children removed by the last slice.container.html('')
    arg,          \* json.data.data as it was on entry to the last scatCatViz call
    bboxes,       \* fixUpLegend: measured widths of the '.key' groups, in document order
    legendWidth,  \* fixUpLegend: props.legendWidth
    adjustments,  \* fixUpLegend: the position given to each key
    xDomain,      \* computedProps: xScale.domain()
    interval,     \* computedProps: computeTickInterval(xScale.domain())
    xTicks        \* computedProps: the retained tick values

vars == <<data, yLines, width, height, container, threw, pc, calls, cleared, arg,
          bboxes, legendWidth, adjustments, xDomain, interval, xTicks>>

(***************************************************************************)
(* Bounds of the model.                                                    *)
(***************************************************************************)
MaxSeries == 3
MaxPoints == 2
MaxCalls == 2
RerenderMaxSeries == 1
RerenderMaxPoints == 1
MaxKeys == 3
MaxDomain == 120

(***************************************************************************)
(* JavaScript values.                                                      *)
(***************************************************************************)
Num(k) == [t |-> "num", n |-> k, s |-> ""]
Str(x) == [t |-> "str", n |-> 0, s |-> x]
Null == [t |-> "null", n |-> 0, s |-> ""]

NaN == [nan |-> TRUE, v |-> 0]
Number(k) == [nan |-> FALSE, v |-> k]

\* The decimal strings of 0..9, in numeric order.
DigitStrings == <<"0", "1", "2", "3", "4", "5", "6", "7", "8", "9">>

IsDigitString(s) == \E k \in 1..Len(DigitStrings) : DigitStrings[k] = s

DigitValue(s) == CHOOSE k \in 0..9 : DigitStrings[k + 1] = s

\* Unary plus: a number is itself, null is 0, a string is its numeric value
\* when it spells a number and NaN otherwise.
ToNumber(val) ==
    IF val.t = "num" THEN Number(val.n)
    ELSE IF val.t = "null" THEN Number(0)
    ELSE IF IsDigitString(val.s) THEN Number(DigitValue(val.s))
    ELSE NaN

\* String(v), as d3.set and d3.map apply it to their keys (key += "").
ToString(val) ==
    IF val.t = "num" THEN DigitStrings[val.n + 1]
    ELSE IF val.t = "null" THEN "null"
    ELSE val.s

(***************************************************************************)
(* Fractions.                                                              *)
(***************************************************************************)
Frac(a, b) == [nan |-> FALSE, num |-> a, den |-> b]
FracNaN == [nan |-> TRUE, num |-> 0, den |-> 1]
FracLess(p, q) == ~p.nan /\ ~q.nan /\ p.num * q.den < q.num * p.den
FracEq(p, q) == ~p.nan /\ ~q.nan /\ p.num * q.den = q.num * p.den

(***************************************************************************)
(* Input data.                                                             *)
(***************************************************************************)
Pt(yv, c, sh) == [y |-> yv, color |-> c, shape |-> sh]

\* The Points the host may supply.
Points ==
    { Pt(1, Num(2), Str("x")),
      Pt(5, Num(1), Str("y")),
      Pt(3, Str("1"), Str("x")),
      Pt(5, Str("b"), Str("y")) }

YLinesOptions ==
    { [defined |-> FALSE, list |-> <<>>],
      [defined |-> TRUE, list |-> <<>>],
      [defined |-> TRUE, list |-> <<3>>] }

Sizes == { <<400, 300>> }

BBoxWidths == { 30, 130 }

RECURSIVE SumLen(_)
SumLen(series) ==
    IF series = <<>> THEN 0
    ELSE Len(series[1].values) + SumLen(Tail(series))

(***************************************************************************)
(* pickFirst and sortData.                                                 *)
(***************************************************************************)
pickFirst(array, attr) == IF Len(array) > 0 THEN array[1][attr] ELSE Null

\* The comparator handed to data.sort: +pickFirst(a) - +pickFirst(b).
compareFn(a, b, sortBy) ==
    LET x == ToNumber(pickFirst(a.values, sortBy))
        y == ToNumber(pickFirst(b.values, sortBy))
    IN  IF x.nan \/ y.nan THEN NaN ELSE Number(x.v - y.v)

\* Array.prototype.sort reads a NaN result of the comparator as +0.
SortCompare(a, b, sortBy) ==
    LET c == compareFn(a, b, sortBy) IN IF c.nan THEN 0 ELSE c.v

\* Whether the comparator is a consistent comparison function on the elements
\* of the array (ECMAScript, Array.prototype.sort): a =CF b and b =CF c give
\* a =CF c, and likewise for <CF and >CF.
ConsistentComparator(array, sortBy) ==
    \A i, j, k \in 1..Len(array) :
        LET ab == SortCompare(array[i], array[j], sortBy)
            bc == SortCompare(array[j], array[k], sortBy)
            ac == SortCompare(array[i], array[k], sortBy)
        IN  /\ (ab = 0 /\ bc = 0) => ac = 0
            /\ (ab < 0 /\ bc < 0) => ac < 0
            /\ (ab > 0 /\ bc > 0) => ac > 0

\* One insertion step of a stable sort: el goes after every element that
\* does not compare greater than it.
RECURSIVE InsertSorted(_, _, _)
InsertSorted(sorted, el, sortBy) ==
    IF sorted = <<>> THEN <<el>>
    ELSE IF SortCompare(sorted[Len(sorted)], el, sortBy) > 0
         THEN Append(InsertSorted(SubSeq(sorted, 1, Len(sorted) - 1), el, sortBy),
                     sorted[Len(sorted)])
         ELSE Append(sorted, el)

RECURSIVE StableSort(_, _)
StableSort(array, sortBy) ==
    IF array = <<>> THEN <<>>
    ELSE InsertSorted(StableSort(SubSeq(array, 1, Len(array) - 1), sortBy),
                      array[Len(array)], sortBy)

ArrayPermutations(array) ==
    { [i \in 1..Len(array) |-> array[f[i]]] :
        f \in { g \in [1..Len(array) -> 1..Len(array)] :
                  \A i, j \in 1..Len(array) : g[i] = g[j] => i = j } }

\* The arrays data.sort may leave behind: the stable ascending order when the
\* comparator is consistent, and an implementation-defined order (some
\* permutation) when it is not.
sortData(array, sortBy) ==
    IF ConsistentComparator(array, sortBy)
    THEN { StableSort(array, sortBy) }
    ELSE ArrayPermutations(array)

(***************************************************************************)
(* d3 helpers.                                                             *)
(***************************************************************************)
Undefined == [def |-> FALSE, v |-> 0]
Some(k) == [def |-> TRUE, v |-> k]

\* d3.min / d3.max over a sequence: undefined entries are skipped, and the
\* result is undefined when nothing is left.
d3min(xs) ==
    LET vals == { xs[i].v : i \in { j \in 1..Len(xs) : xs[j].def } }
    IN  IF vals = {} THEN Undefined
        ELSE Some(CHOOSE m \in vals : \A x \in vals : m <= x)

d3max(xs) ==
    LET vals == { xs[i].v : i \in { j \in 1..Len(xs) : xs[j].def } }
    IN  IF vals = {} THEN Undefined
        ELSE Some(CHOOSE m \in vals : \A x \in vals : m >= x)

\* d3.range(n): 0 .. n-1.
d3range(n) == [i \in 1..n |-> i - 1]

RECURSIVE Dedupe(_, _)
Dedupe(keys, seen) ==
    IF keys = <<>> THEN <<>>
    ELSE IF Head(keys) \in seen THEN Dedupe(Tail(keys), seen)
    ELSE <<Head(keys)>> \o Dedupe(Tail(keys), seen \cup {Head(keys)})

\* The strings of the values without the set: duplicates stay.
d3setValuesKeepingDuplicates(array) == [i \in 1..Len(array) |-> ToString(array[i])]

\* The distinct strings of the values in the order they were first added,
\* whatever they spell.
d3setValuesFirstSeen(array) == Dedupe([i \in 1..Len(array) |-> ToString(array[i])], {})

\* d3.set(array).values(): the keys are the strings of the values; they come
\* back in the property order of the backing object, which lists the keys
\* that spell an array index first, in ascending numeric order, and then the
\* other keys in the order they were first added.
d3setValues(array) ==
    LET keys == [i \in 1..Len(array) |-> ToString(array[i])]
        keyset == { keys[i] : i \in 1..Len(keys) }
        indexKeys == SelectSeq(DigitStrings, LAMBDA s : s \in keyset)
        others == SelectSeq(Dedupe(keys, {}), LAMBDA s : ~IsDigitString(s))
    IN  indexKeys \o others

\* [].concat(...data.map(d => d.values.map(v => v[attr]))).
RECURSIVE AllValues(_, _)
AllValues(series, attr) ==
    IF series = <<>> THEN <<>>
    ELSE [i \in 1..Len(series[1].values) |-> series[1].values[i][attr]]
         \o AllValues(Tail(series), attr)

\* d3.svg.symbolTypes.
symbolTypes == <<"circle", "cross", "diamond", "square", "triangle-down", "triangle-up">>

IndexOf(seq, x) ==
    IF \E i \in 1..Len(seq) : seq[i] = x
    THEN CHOOSE i \in 1..Len(seq) : seq[i] = x /\ \A j \in 1..(i - 1) : seq[j] # x
    ELSE 0

\* shapeScale(v): a d3 ordinal scale; a key outside the domain is appended to it.
shapeScale(shapeValues, val) ==
    LET at == IndexOf(shapeValues, ToString(val))
        idx == IF at = 0 THEN Len(shapeValues) + 1 ELSE at
    IN  symbolTypes[((idx - 1) % Len(symbolTypes)) + 1]

(***************************************************************************)
(* computeTickInterval.                                                    *)
(***************************************************************************)
\* maxValue.toString().length for a non-negative integer.
RECURSIVE NumDigits(_)
NumDigits(m) == IF m < 10 THEN 1 ELSE 1 + NumDigits(m \div 10)

\* for (let i = 0; i < nDigits - 1; i++) interval = 10 * interval;
RECURSIVE TickLoop(_, _, _)
TickLoop(i, nDigits, acc) ==
    IF i < nDigits - 1 THEN TickLoop(i + 1, nDigits, 10 * acc) ELSE acc

\* d3.max of an empty domain is undefined, and undefined.toString() is a TypeError.
computeTickIntervalThrows(domain) ==
    ~d3max([i \in 1..Len(domain) |-> Some(domain[i])]).def

\* The interval without the final halving.
computeTickIntervalNotHalved(domain) ==
    LET maxValue == d3max([i \in 1..Len(domain) |-> Some(domain[i])]).v
    IN  Frac(TickLoop(0, NumDigits(maxValue), 1), 1)

\* interval / 2, as a fraction.
computeTickInterval(domain) ==
    LET maxValue == d3max([i \in 1..Len(domain) |-> Some(domain[i])]).v
        nDigits == NumDigits(maxValue)
    IN  Frac(TickLoop(0, nDigits, 1), 2)

\* !(d % interval) for an integer d and a positive fraction interval.
NoRemainder(d, iv) == (d * iv.den) % iv.num = 0

\* xScale.domain().filter(d => !(d % interval)).
filterTicks(domain, iv) == SelectSeq(domain, LAMBDA d : NoRemainder(d, iv))

(***************************************************************************)
(* computedProps.                                                          *)
(***************************************************************************)
paddingTop == 20
paddingLeft == 60
paddingRight == 20
paddingBottom == 60

\* height * 0.07 and height * 0.03, exact for the heights of Sizes.
legendHeightOf(h) == (h * 7) \div 100
xlabelHeightOf(h) == (h * 3) \div 100

plotWidthOf(w) == w - (paddingRight + paddingLeft)
plotHeightOf(h) == h - (paddingTop + paddingBottom + legendHeightOf(h) + xlabelHeightOf(h))

\* d3.min(sortedData, d => d3.min(d.values, v => v.y)), and d3.max likewise.
yMinOf(series) ==
    d3min([i \in 1..Len(series) |->
             d3min([j \in 1..Len(series[i].values) |-> Some(series[i].values[j].y)])])

yMaxOf(series) ==
    d3max([i \in 1..Len(series) |->
             d3max([j \in 1..Len(series[i].values) |-> Some(series[i].values[j].y)])])

\* The range the other way up: [0, plotHeight].
yRangeNotInverted(plotHeight) == <<0, plotHeight>>

\* .range([plotHeight, 0])
yRange(plotHeight) == <<plotHeight, 0>>

\* computedProps, given the array sortData left behind.
computedProps(sortedData, w, h) ==
    LET domain == d3range(Len(sortedData))
        iv == computeTickInterval(domain)
    IN  [ plotWidth |-> plotWidthOf(w),
          plotHeight |-> plotHeightOf(h),
          legendWidth |-> plotWidthOf(w),
          xlabelHeight |-> xlabelHeightOf(h),
          yMin |-> yMinOf(sortedData),
          yMax |-> yMaxOf(sortedData),
          yRange |-> yRange(plotHeightOf(h)),
          xDomain |-> domain,
          colorValues |-> d3setValues(AllValues(sortedData, "color")),
          shapeValues |-> d3setValues(AllValues(sortedData, "shape")),
          interval |-> iv,
          xTicks |-> filterTicks(domain, iv) ]

\* yScale(x): d3.scale.linear().domain([yMin, yMax]).range(yRange).  An
\* undefined domain gives NaN; a flat domain maps everything to range[0].
yScale(props, x) ==
    IF ~props.yMin.def \/ ~props.yMax.def THEN FracNaN
    ELSE LET a == props.yMin.v
             b == props.yMax.v - props.yMin.v
             r0 == props.yRange[1]
             r1 == props.yRange[2]
         IN  IF b = 0 THEN Frac(r0, 1)
             ELSE Frac(r0 * (b - (x - a)) + r1 * (x - a), b)

\* xScale(i): d3.scale.ordinal().domain(d3.range(n)).rangePoints([0, plotWidth]).
xScale(props, i) ==
    LET n == Len(props.xDomain)
    IN  IF n < 2 THEN Frac(0 + props.plotWidth, 2)
        ELSE Frac(props.plotWidth * i, n - 1)

(***************************************************************************)
(* fixUpLegend.                                                            *)
(***************************************************************************)
paddingY == 20
paddingX == 16

\* startsNewRow testing the row offset alone, without the key's width.
startsNewRowIgnoringWidth(currentX, bboxWidth, lw) == currentX >= lw

\* if (currentX + bbox.width >= legendWidth)
startsNewRow(currentX, bboxWidth, lw) == currentX + bboxWidth >= lw

\* bboxes.forEach(...): the adjustments pushed for bboxes[i..], from the
\* running currentX and currentY.
\* packKeys that moves down a row without resetting currentX to 0.
RECURSIVE packKeysNoReset(_, _, _, _, _)
packKeysNoReset(boxes, i, currentX, currentY, lw) ==
    IF i > Len(boxes) THEN <<>>
    ELSE LET wrap == currentX + boxes[i] >= lw
             cy == IF wrap THEN currentY + paddingY ELSE currentY
         IN  <<[x |-> currentX, y |-> cy]>>
             \o packKeysNoReset(boxes, i + 1, currentX + (boxes[i] + paddingX), cy, lw)

RECURSIVE packKeys(_, _, _, _, _)
packKeys(boxes, i, currentX, currentY, lw) ==
    IF i > Len(boxes) THEN <<>>
    ELSE LET wrap == startsNewRow(currentX, boxes[i], lw)
             cx == IF wrap THEN 0 ELSE currentX
             cy == IF wrap THEN currentY + paddingY ELSE currentY
         IN  <<[x |-> cx, y |-> cy]>>
             \o packKeys(boxes, i + 1, cx + (boxes[i] + paddingX), cy, lw)

fixUpLegend(boxes, lw) == packKeys(boxes, 1, 0, paddingY, lw)

(***************************************************************************)
(* What scatCatViz draws.                                                  *)
(***************************************************************************)
\* drawBands with the inner data join bound to the first Point only.
drawBandsFirstPointOnly(sortedData, props) ==
    [i \in 1..Len(sortedData) |->
        [ x |-> xScale(props, i - 1),
          key |-> sortedData[i].key,
          points |->
            [j \in 1..(IF Len(sortedData[i].values) > 0 THEN 1 ELSE 0) |->
                LET d == sortedData[i].values[j]
                IN  [ symbol |-> shapeScale(props.shapeValues, d.shape),
                      y |-> yScale(props, d.y),
                      fill |-> d.color ]] ]]

\* g.selectAll('.band').data(sortedData).enter().append('g'), and inside each
\* band.selectAll('.point').data(d => d.values).enter().append('path').
drawBands(sortedData, props) ==
    [i \in 1..Len(sortedData) |->
        [ x |-> xScale(props, i - 1),
          key |-> sortedData[i].key,
          points |->
            [j \in 1..Len(sortedData[i].values) |->
                LET d == sortedData[i].values[j]
                IN  [ symbol |-> shapeScale(props.shapeValues, d.shape),
                      y |-> yScale(props, d.y),
                      fill |-> d.color ]] ]]

\* if (yLines) g.selectAll('.line').data(yLines).enter().append('line')
drawLines(yl, props) ==
    IF yl.defined
    THEN [i \in 1..Len(yl.list) |->
            [ x1 |-> 0,
              x2 |-> props.plotWidth,
              y1 |-> yScale(props, yl.list[i]),
              y2 |-> yScale(props, yl.list[i]) ]]
    ELSE <<>>

\* renderLegend: the '.key' groups in document order, color keys first.
renderLegend(props) ==
    [i \in 1..Len(props.colorValues) |->
        [ cls |-> "color", text |-> props.colorValues[i], mark |-> props.colorValues[i] ]]
    \o
    [i \in 1..Len(props.shapeValues) |->
        [ cls |-> "shape", text |-> props.shapeValues[i],
          mark |-> shapeScale(props.shapeValues, Str(props.shapeValues[i])) ]]

\* The SVG appended to the container, with the legend keys at the positions
\* fixUpLegend gave them.
drawSvg(sortedData, props, yl, w, h, boxes) ==
    LET keys == renderLegend(props)
        adj == fixUpLegend(boxes, props.legendWidth)
    IN  [ width |-> w,
          height |-> h,
          xTicks |-> props.xTicks,
          yDomain |-> <<props.yMin, props.yMax>>,
          bands |-> drawBands(sortedData, props),
          lines |-> drawLines(yl, props),
          legend |-> [i \in 1..Len(keys) |->
                        [ cls |-> keys[i].cls, text |-> keys[i].text,
                          mark |-> keys[i].mark, x |-> adj[i].x, y |-> adj[i].y ]] ]

\* A container that is not emptied.
clearContainerKeepingChildren(children) == children

\* slice.container.html('')
clearContainer(children) == <<>>

(***************************************************************************)
(* Actions.                                                                *)
(***************************************************************************)
NoLegend == /\ bboxes = <<>> /\ legendWidth = 0 /\ adjustments = <<>>
NoTicks == /\ xDomain = <<>> /\ interval = FracNaN /\ xTicks = <<>>

Init ==
    /\ data = <<>>
    /\ yLines \in YLinesOptions
    /\ \E size \in Sizes : width = size[1] /\ height = size[2]
    /\ container = <<>>
    /\ threw = FALSE
    /\ pc = "loading"
    /\ calls = 0
    /\ cleared = 0
    /\ arg = <<>>
    /\ NoLegend
    /\ NoTicks

\* The host appends a Series to json.data.data.
AddSeries(maxSeries) ==
    /\ pc = "loading"
    /\ Len(data) < maxSeries
    /\ data' = Append(data, [key |-> Len(data) + 1, values |-> <<>>])
    /\ UNCHANGED <<yLines, width, height, container, threw, pc, calls, cleared, arg,
                   bboxes, legendWidth, adjustments, xDomain, interval, xTicks>>

\* The host appends a Point to the last Series of json.data.data.
AddPoint(p, maxPoints) ==
    /\ pc = "loading"
    /\ Len(data) > 0
    /\ SumLen(data) < maxPoints
    /\ data' = [data EXCEPT ![Len(data)].values = Append(@, p)]
    /\ UNCHANGED <<yLines, width, height, container, threw, pc, calls, cleared, arg,
                   bboxes, legendWidth, adjustments, xDomain, interval, xTicks>>

\* The host fetches a new result: json.data.data is a fresh array.
NewQuery ==
    /\ pc = "rendered"
    /\ calls < MaxCalls
    /\ data' = <<>>
    /\ pc' = "loading"
    /\ UNCHANGED <<yLines, width, height, container, threw, calls, cleared, arg,
                   bboxes, legendWidth, adjustments, xDomain, interval, xTicks>>

\* One call of scatCatViz(slice, json).
scatCatViz ==
    /\ pc \in {"loading", "rendered"}
    /\ calls < MaxCalls
    /\ calls' = calls + 1
    /\ pc' = "rendered"
    /\ arg' = data
    /\ cleared' = Len(container)
    /\ UNCHANGED <<yLines, width, height>>
    /\ \E sortedData \in sortData(data, "color") :
        /\ data' = sortedData
        /\ IF computeTickIntervalThrows(d3range(Len(sortedData)))
           THEN /\ threw' = TRUE
                /\ container' = clearContainer(container)
                /\ UNCHANGED <<bboxes, legendWidth, adjustments, xDomain, interval, xTicks>>
           ELSE LET props == computedProps(sortedData, width, height)
                    nKeys == Len(renderLegend(props))
                IN  \E bw \in BBoxWidths :
                      LET boxes == [i \in 1..nKeys |-> bw]
                      IN  /\ threw' = FALSE
                          /\ container' = Append(clearContainer(container),
                                                 drawSvg(sortedData, props, yLines,
                                                         width, height, boxes))
                          /\ bboxes' = boxes
                          /\ legendWidth' = props.legendWidth
                          /\ adjustments' = fixUpLegend(boxes, props.legendWidth)
                          /\ xDomain' = props.xDomain
                          /\ interval' = props.interval
                          /\ xTicks' = props.xTicks

Next ==
    \/ AddSeries(MaxSeries)
    \/ \E p \in Points : AddPoint(p, MaxPoints)
    \/ (pc = "loading" /\ scatCatViz)

Spec == Init /\ [][Next]_vars

(***************************************************************************)
(* Repeated renders on one surface: the host renders, fetches new data and *)
(* renders again, or renders the same json again (a resize).               *)
(***************************************************************************)
NextRerender ==
    \/ AddSeries(RerenderMaxSeries)
    \/ \E p \in Points : AddPoint(p, RerenderMaxPoints)
    \/ NewQuery
    \/ scatCatViz

SpecRerender == Init /\ [][NextRerender]_vars

(***************************************************************************)
(* fixUpLegend on its own: any measured key widths, any legend width.      *)
(***************************************************************************)
KeyWidths == { 44, 60, 104, 120, 140 }
LegendWidths == { 120, 320 }

InitLegend ==
    /\ data = <<>>
    /\ yLines = [defined |-> FALSE, list |-> <<>>]
    /\ \E size \in Sizes : width = size[1] /\ height = size[2]
    /\ container = <<>>
    /\ threw = FALSE
    /\ pc = "measuring"
    /\ calls = 0
    /\ cleared = 0
    /\ arg = <<>>
    /\ bboxes = <<>>
    /\ legendWidth \in LegendWidths
    /\ adjustments = <<>>
    /\ NoTicks

\* legend.selectAll('.key').each(...): getBBox() of the next key is pushed.
MeasureKey(w) ==
    /\ pc = "measuring"
    /\ Len(bboxes) < MaxKeys
    /\ bboxes' = Append(bboxes, w)
    /\ UNCHANGED <<data, yLines, width, height, container, threw, pc, calls, cleared,
                   arg, legendWidth, adjustments, xDomain, interval, xTicks>>

\* The forEach over bboxes and the transform of every key.
PlaceKeys ==
    /\ pc = "measuring"
    /\ adjustments' = fixUpLegend(bboxes, legendWidth)
    /\ pc' = "placed"
    /\ UNCHANGED <<data, yLines, width, height, container, threw, calls, cleared,
                   arg, bboxes, legendWidth, xDomain, interval, xTicks>>

NextLegend ==
    \/ \E w \in KeyWidths : MeasureKey(w)
    \/ PlaceKeys

SpecLegend == InitLegend /\ [][NextLegend]_vars

(***************************************************************************)
(* The tick policy on its own: a horizontal domain 0 .. n-1 of any size.   *)
(***************************************************************************)
InitTicks ==
    /\ data = <<>>
    /\ yLines = [defined |-> FALSE, list |-> <<>>]
    /\ \E size \in Sizes : width = size[1] /\ height = size[2]
    /\ container = <<>>
    /\ threw = FALSE
    /\ pc = "domain"
    /\ calls = 0
    /\ cleared = 0
    /\ arg = <<>>
    /\ NoLegend
    /\ \E n \in 0..MaxDomain : xDomain = d3range(n)
    /\ interval = FracNaN
    /\ xTicks = <<>>

\* const interval = computeTickInterval(xScale.domain()); const xTicks = ...
ComputeTicks ==
    /\ pc = "domain"
    /\ pc' = "ticks"
    /\ IF computeTickIntervalThrows(xDomain)
       THEN /\ threw' = TRUE
            /\ UNCHANGED <<interval, xTicks>>
       ELSE /\ threw' = FALSE
            /\ interval' = computeTickInterval(xDomain)
            /\ xTicks' = filterTicks(xDomain, computeTickInterval(xDomain))
    /\ UNCHANGED <<data, yLines, width, height, container, calls, cleared, arg,
                   bboxes, legendWidth, adjustments, xDomain>>

NextTicks == ComputeTicks

SpecTicks == InitTicks /\ [][NextTicks]_vars

(***************************************************************************)
(* Reading the surface.                                                    *)
(***************************************************************************)
RECURSIVE Concat(_)
Concat(seqs) == IF seqs = <<>> THEN <<>> ELSE Head(seqs) \o Concat(Tail(seqs))

\* Every '.band' group, every reference line and every legend key under the container.
Bands == Concat([c \in 1..Len(container) |-> container[c].bands])
Lines == Concat([c \in 1..Len(container) |-> container[c].lines])
Keys == Concat([c \in 1..Len(container) |-> container[c].legend])

\* The '.point' paths inside the '.band' groups.
BandPoints == Concat([b \in 1..Len(Bands) |-> Bands[b].points])

Returned == pc = "rendered" /\ ~threw

\* The order of two category values: by numeric value when both convert to
\* a number, and by code unit when both are strings that do not.
StringOrder == <<"1", "a", "b", "x", "y">>
ValueLess(a, b) ==
    IF ~ToNumber(a).nan /\ ~ToNumber(b).nan
    THEN ToNumber(a).v < ToNumber(b).v
    ELSE /\ a.t = "str"
         /\ b.t = "str"
         /\ IndexOf(StringOrder, a.s) < IndexOf(StringOrder, b.s)

ValueEqual(a, b) ==
    \/ a = b
    \/ ~ToNumber(a).nan /\ ~ToNumber(b).nan /\ ToNumber(a).v = ToNumber(b).v

\* Where the Series with this key stood in the array handed to the call.
PosInArg(k) == CHOOSE i \in 1..Len(arg) : arg[i].key = k

(***************************************************************************)
(* C1: after a render the bands are in ascending order of the color value  *)
(* of their Series' first Point, Series with equal first-point colors keep *)
(* their original relative order, and the band at rank i lies strictly to  *)
(* the left of the band at rank i+1.                                       *)
(***************************************************************************)
C1_AscendingStableLeftToRight ==
    pc = "rendered" =>
        /\ \A i, j \in 1..Len(Bands) :
              (i < j /\ Bands[i].points # <<>> /\ Bands[j].points # <<>>) =>
                  /\ ~ValueLess(Bands[j].points[1].fill, Bands[i].points[1].fill)
                  /\ ValueEqual(Bands[i].points[1].fill, Bands[j].points[1].fill)
                        => PosInArg(Bands[i].key) < PosInArg(Bands[j].key)
        /\ \A i \in 1..(Len(Bands) - 1) : FracLess(Bands[i].x, Bands[i + 1].x)

(***************************************************************************)
(* C2: when scatCatViz finishes, the number of '.point' paths inside the   *)
(* '.band' groups equals the total number of Points over all Series, and   *)
(* there is exactly one band group per Series.                             *)
(***************************************************************************)
C2_OneMarkPerPoint ==
    pc = "rendered" =>
        /\ Len(BandPoints) = SumLen(arg)
        /\ Len(Bands) = Len(arg)
        /\ \A i \in 1..Len(arg) :
              Cardinality({ b \in 1..Len(Bands) :
                              /\ Bands[b].key = arg[i].key
                              /\ Len(Bands[b].points) = Len(arg[i].values) }) = 1

C2_Witness ==
    /\ Returned
    /\ Len(arg) = 3
    /\ SumLen(arg) = 2
    /\ \E i \in 1..Len(arg) : Len(arg[i].values) = 2

(***************************************************************************)
(* Reading the legend layout.                                              *)
(***************************************************************************)
Placed == pc = "placed"

\* The keys placed in the row at height rowY, and the row's total width:
\* the widths of its keys plus the gaps between them.
RowKeys(rowY) == { i \in 1..Len(adjustments) : adjustments[i].y = rowY }
Rows == { adjustments[i].y : i \in 1..Len(adjustments) }

RECURSIVE SumWidths(_)
SumWidths(keys) ==
    IF keys = {} THEN 0
    ELSE LET k == CHOOSE x \in keys : TRUE
         IN  bboxes[k] + SumWidths(keys \ {k})

RowWidth(rowY) == SumWidths(RowKeys(rowY)) + paddingX * (Cardinality(RowKeys(rowY)) - 1)

\* The row offset and row height the packing has reached before key i.
OffsetBefore(i) == IF i = 1 THEN 0 ELSE adjustments[i - 1].x + bboxes[i - 1] + paddingX
HeightBefore(i) == IF i = 1 THEN paddingY ELSE adjustments[i - 1].y

C10_NewRowExactlyWhenExceeding ==
    Placed =>
        /\ Len(adjustments) = Len(bboxes)
        /\ \A i \in 1..Len(bboxes) :
              IF OffsetBefore(i) + bboxes[i] > legendWidth
              THEN adjustments[i] = [x |-> 0, y |-> HeightBefore(i) + 20]
              ELSE adjustments[i] = [x |-> OffsetBefore(i), y |-> HeightBefore(i)]

(***************************************************************************)
(* C10 amended: a key starts a new row exactly when its width added to the *)
(* current row offset would reach or exceed the legend width; otherwise it *)
(* is placed in the current row at the current offset; a new row is 20     *)
(* units below with its first key at x = 0.                                *)
(***************************************************************************)
C10_NewRowExactlyWhenReaching ==
    Placed =>
        /\ Len(adjustments) = Len(bboxes)
        /\ \A i \in 1..Len(bboxes) :
              IF OffsetBefore(i) + bboxes[i] >= legendWidth
              THEN adjustments[i] = [x |-> 0, y |-> HeightBefore(i) + 20]
              ELSE adjustments[i] = [x |-> OffsetBefore(i), y |-> HeightBefore(i)]

C10_Witness ==
    /\ Placed
    /\ Len(bboxes) = 3
    /\ adjustments[2].y = adjustments[1].y
    /\ adjustments[2].x > 0
    /\ OffsetBefore(3) + bboxes[3] = legendWidth
    /\ adjustments[3] = [x |-> 0, y |-> adjustments[2].y + 20]

(***************************************************************************)
(* Reading the dataset of the last call.                                   *)
(***************************************************************************)
\* Every Point of the array handed to the last call.
ArgPoints == Concat([i \in 1..Len(arg) |-> arg[i].values])
ArgYs == { ArgPoints[i].y : i \in 1..Len(ArgPoints) }
GlobalMinY == CHOOSE m \in ArgYs : \A v \in ArgYs : m <= v
GlobalMaxY == CHOOSE m \in ArgYs : \A v \in ArgYs : m >= v

\* After the call data is the sorted array the bands were bound to, so the
\* path at Bands[b].points[j] was drawn for data[b].values[j].
DrawnPoints ==
    { <<b, j>> \in (1..Len(Bands)) \X (1..MaxPoints + 1) : j <= Len(Bands[b].points) }

(***************************************************************************)
(* C4: for a dataset whose Points do not all share one y, the vertical     *)
(* scale has the minimum and maximum y over all Points as its domain, maps *)
(* the global minimum to plotHeight and the global maximum to 0, and never *)
(* maps a larger y to a larger pixel offset.                               *)
(***************************************************************************)
C4_VerticalScaleSpansGlobalExtent ==
    (pc = "rendered" /\ Cardinality(ArgYs) > 1) =>
        /\ Len(container) = 1
        /\ container[1].yDomain = <<Some(GlobalMinY), Some(GlobalMaxY)>>
        /\ \A p \in DrawnPoints :
              LET d == data[p[1]].values[p[2]]
                  at == Bands[p[1]].points[p[2]].y
              IN  /\ d.y = GlobalMinY => FracEq(at, Frac(plotHeightOf(height), 1))
                  /\ d.y = GlobalMaxY => FracEq(at, Frac(0, 1))
        /\ \A p, q \in DrawnPoints :
              data[p[1]].values[p[2]].y > data[q[1]].values[q[2]].y
                 => ~FracLess(Bands[q[1]].points[q[2]].y, Bands[p[1]].points[p[2]].y)

C4_Witness ==
    /\ Returned
    /\ Len(Bands) >= 2
    /\ \E p, q \in DrawnPoints :
          /\ p[1] # q[1]
          /\ data[p[1]].values[p[2]].y = 1
          /\ data[q[1]].values[q[2]].y = 5
          /\ FracEq(Bands[p[1]].points[p[2]].y, Frac(plotHeightOf(height), 1))
          /\ FracEq(Bands[q[1]].points[q[2]].y, Frac(0, 1))

(***************************************************************************)
(* C5 as stated: the number of color keys in the legend equals the number  *)
(* of distinct color values over all Points, and the number of shape keys  *)
(* equals the number of distinct shape values over all Points.             *)
(***************************************************************************)
ColorKeys == { i \in 1..Len(Keys) : Keys[i].cls = "color" }
ShapeKeys == { i \in 1..Len(Keys) : Keys[i].cls = "shape" }

C5_OneKeyPerDistinctValue ==
    pc = "rendered" =>
        /\ Cardinality(ColorKeys) = Cardinality({ ArgPoints[i].color : i \in 1..Len(ArgPoints) })
        /\ Cardinality(ShapeKeys) = Cardinality({ ArgPoints[i].shape : i \in 1..Len(ArgPoints) })

(***************************************************************************)
(* C5 amended: the number of color keys equals the number of distinct      *)
(* strings that the color values of all Points convert to, and the number  *)
(* of shape keys equals the number of distinct strings that the shape      *)
(* values convert to (the number 1 and the string "1" share one key).      *)
(***************************************************************************)
C5_OneKeyPerDistinctString ==
    pc = "rendered" =>
        /\ Cardinality(ColorKeys)
              = Cardinality({ ToString(ArgPoints[i].color) : i \in 1..Len(ArgPoints) })
        /\ Cardinality(ShapeKeys)
              = Cardinality({ ToString(ArgPoints[i].shape) : i \in 1..Len(ArgPoints) })
        /\ \A i, j \in ColorKeys : Keys[i].text = Keys[j].text => i = j
        /\ \A i, j \in ShapeKeys : Keys[i].text = Keys[j].text => i = j

C5_Witness ==
    /\ Returned
    /\ \E i, j \in 1..Len(ArgPoints) :
          ArgPoints[i].color = Num(1) /\ ArgPoints[j].color = Str("1")
    /\ Cardinality(ColorKeys) = 1
    /\ Cardinality(ShapeKeys) = 2

(***************************************************************************)
(* C6: a render draws exactly one reference line per element of yLines,    *)
(* each from x = 0 to x = plotWidth at the vertical scale position of its  *)
(* value; with yLines empty or omitted it draws none.                      *)
(***************************************************************************)
ExpectedLines == IF yLines.defined THEN yLines.list ELSE <<>>

C6_OneLinePerYLine ==
    pc = "rendered" =>
        /\ Len(Lines) = Len(ExpectedLines)
        /\ \A i \in 1..Len(Lines) :
              /\ Lines[i].x1 = 0
              /\ Lines[i].x2 = plotWidthOf(width)
              /\ Lines[i].y1 = Lines[i].y2
              /\ Lines[i].y1 = yScale(computedProps(data, width, height), ExpectedLines[i])

(***************************************************************************)
(* C7: after any sequence of render calls on one surface, the surface      *)
(* holds exactly what the last call alone produces: at most one SVG, drawn *)
(* from the last call's dataset, and nothing of an earlier render.         *)
(***************************************************************************)
\* What one call draws into an empty container.
FreshContent(series, yl, w, h) ==
    IF computeTickIntervalThrows(d3range(Len(series))) THEN { <<>> }
    ELSE { <<drawSvg(sd, computedProps(sd, w, h), yl, w, h,
                     [i \in 1..Len(renderLegend(computedProps(sd, w, h))) |-> bw])>> :
             sd \in sortData(series, "color"), bw \in BBoxWidths }

C8_NeverThrows == ~threw

(***************************************************************************)
(* C9: for a horizontal domain 0 .. n-1 (n >= 1) computeTickInterval       *)
(* returns 10^(k-1)/2 with k the number of decimal digits of n-1, and      *)
(* xTicks is exactly the domain indices evenly divisible by that interval, *)
(* in ascending order (0.5 for a single-digit maximum).                    *)
(***************************************************************************)
RECURSIVE Pow10(_)
Pow10(e) == IF e = 0 THEN 1 ELSE 10 * Pow10(e - 1)

\* k is the number of decimal digits of m.
HasDigits(m, k) == m < Pow10(k) /\ (k = 1 \/ m >= Pow10(k - 1))

\* d is a whole multiple of the fraction iv.
EvenlyDivisible(d, iv) == \E q \in 0..(d * iv.den) : q * iv.num = d * iv.den

C9_TickIntervalAndTicks ==
    (pc = "ticks" /\ Len(xDomain) >= 1) =>
        /\ ~threw
        /\ \E k \in 1..4 :
              /\ HasDigits(Len(xDomain) - 1, k)
              /\ FracEq(interval, Frac(Pow10(k - 1), 2))
        /\ { xTicks[i] : i \in 1..Len(xTicks) }
              = { d \in 0..(Len(xDomain) - 1) : EvenlyDivisible(d, interval) }
        /\ \A i \in 1..(Len(xTicks) - 1) : xTicks[i] < xTicks[i + 1]

C9_Witness ==
    /\ pc = "ticks"
    /\ Len(xDomain) = 101
    /\ FracEq(interval, Frac(50, 1))
    /\ xTicks = <<0, 50, 100>>

(***************************************************************************)
(* The lookups, read from the surface: the legend holds one key per entry  *)
(* of the color domain and one per entry of the shape domain, in domain    *)
(* order; data is the sorted array the domains were collected from.        *)
(***************************************************************************)
KeyTexts(cls) ==
    LET ks == SelectSeq(Keys, LAMBDA k : k.cls = cls)
    IN  [i \in 1..Len(ks) |-> ks[i].text]
KeyMarks(cls) ==
    LET ks == SelectSeq(Keys, LAMBDA k : k.cls = cls)
    IN  [i \in 1..Len(ks) |-> ks[i].mark]

ScannedStrings(attr) ==
    LET scan == AllValues(data, attr)
    IN  [i \in 1..Len(scan) |-> ToString(scan[i])]

DataPoints == Concat([i \in 1..Len(data) |-> data[i].values])

\* domain lists each scanned string exactly once.
IsDeduplicated(domain, scan) ==
    /\ { domain[i] : i \in 1..Len(domain) } = { scan[i] : i \in 1..Len(scan) }
    /\ \A i, j \in 1..Len(domain) : domain[i] = domain[j] => i = j

\* Every mark carries the symbol at its value's position in the shape domain.
SymbolsByPosition ==
    /\ Len(BandPoints) = Len(DataPoints)
    /\ \A i \in 1..Len(BandPoints) :
          LET at == IndexOf(KeyTexts("shape"), ToString(DataPoints[i].shape))
          IN  at \in 1..Len(symbolTypes) /\ BandPoints[i].symbol = symbolTypes[at]
    /\ \A i \in 1..Len(KeyMarks("shape")) :
          i <= Len(symbolTypes) => KeyMarks("shape")[i] = symbolTypes[i]

FirstSeenOrder(domain, scan) ==
    \A i, j \in 1..Len(domain) :
        i < j <=> IndexOf(scan, domain[i]) < IndexOf(scan, domain[j])

IndexKeysFirstOrder(domain, scan) ==
    \A i, j \in 1..Len(domain) :
        i < j <=>
            IF IsDigitString(domain[i]) /\ IsDigitString(domain[j])
            THEN DigitValue(domain[i]) < DigitValue(domain[j])
            ELSE IF IsDigitString(domain[i]) # IsDigitString(domain[j])
            THEN IsDigitString(domain[i])
            ELSE IndexOf(scan, domain[i]) < IndexOf(scan, domain[j])

====
